---- MODULE Spec2Model ----
(***************************************************************************)
(* Retrieval and ranking core of IdeaSystemXS: SearchEngine (keyword,      *)
(* vector and hybrid search, related-idea resolution) over the SQLite      *)
(* notes store (Ideas, Tags, IdeaTags, Relations) and the ChromaDB         *)
(* collection "ideas_embeddings".                                          *)
(*                                                                         *)
(* Texts are sequences of one-character strings.  Scores, distances and    *)
(* confidences are integers counting tenths (0.1 is 1, 1.0 is 10).         *)
(*                                                                         *)
(* EmbeddingGenerator works on texts given as the sequence of their words: *)
(* a word is a number, its upper-case spelling the negative number, and 0  *)
(* is white space alone.  hashseed is the seed of str hashes of the        *)
(* running Python process.  threads holds the calls that run on two        *)
(* threads at once, each with the cursor DatabaseManager keeps for it.     *)
(***************************************************************************)
EXTENDS Integers, Sequences, FiniteSets, TLC

VARIABLES ideas, seq, clock, tags, ideaTags, relations, vindex, config, last,
          hashseed, threads

vars == <<ideas, seq, clock, tags, ideaTags, relations, vindex, config, last, hashseed,
          threads>>

(***************************************************************************)
(* Bounds of the model.                                                    *)
(***************************************************************************)
MaxIdeas == 2
MaxLimit == 2
MaxRelations == 2

(* Titles, contents and queries the operations are exercised with. *)
Titles == { <<"b">>, <<"A", "a", "a">> }
Contents == { <<"b">>, <<"a", "b", "a">> }
Queries == { <<>>, <<"a">> }
WildQueries == { <<"A">>, <<"_">>, <<"a", "b">>, <<"a", "a">> }

(* Distances the vector index reports, and confidences of relation edges. *)
Distances == {3, 15}
Confidences == {4, 9}

(***************************************************************************)
(* Text helpers.                                                           *)
(***************************************************************************)
Min(a, b) == IF a <= b THEN a ELSE b

Max(a, b) == IF a >= b THEN a ELSE b

(* str.lower() on one character *)
LowerChar(c) == IF c = "A" THEN "a" ELSE IF c = "B" THEN "b" ELSE c

Lower(s) == [i \in 1..Len(s) |-> LowerChar(s[i])]

(* s starts with p *)
StartsWith(s, p) == Len(p) <= Len(s) /\ SubSeq(s, 1, Len(p)) = p

(* Python s[a:b]; a negative index counts from the end *)
Slice(s, a, b) ==
    LET lo == IF a < 0 THEN Max(0, a + Len(s)) ELSE Min(a, Len(s))
        hi == IF b < 0 THEN Max(0, b + Len(s)) ELSE Min(b, Len(s))
    IN SubSeq(s, lo + 1, hi)

(* Python str.count(sub): non-overlapping occurrences, scanning left to right *)
RECURSIVE StrCount(_, _)
StrCount(s, sub) ==
    IF sub = <<>> THEN Len(s) + 1
    ELSE IF Len(s) < Len(sub) THEN 0
    ELSE IF StartsWith(s, sub)
         THEN 1 + StrCount(SubSeq(s, Len(sub) + 1, Len(s)), sub)
         ELSE StrCount(Tail(s), sub)

(* SQLite  text LIKE pattern : % is any run, _ is any one character,
   letters compare case-insensitively *)
RECURSIVE LikeMatch(_, _)
LikeMatch(p, t) ==
    IF p = <<>> THEN t = <<>>
    ELSE IF Head(p) = "%"
         THEN LikeMatch(Tail(p), t) \/ (t # <<>> /\ LikeMatch(p, Tail(t)))
    ELSE IF t = <<>> THEN FALSE
    ELSE IF Head(p) = "_" THEN LikeMatch(Tail(p), Tail(t))
    ELSE LowerChar(Head(p)) = LowerChar(Head(t)) /\ LikeMatch(Tail(p), Tail(t))

(* f"%{query}%" *)
LikePattern(query) == <<"%">> \o query \o <<"%">>

(***************************************************************************)
(* Sequence helpers.                                                       *)
(***************************************************************************)
Range(s) == {s[i] : i \in 1..Len(s)}

(* every arrangement of the finite set S in a sequence without repetition *)
Perms(S) == {s \in [1..Cardinality(S) -> S] : Range(s) = S}

(* SQL  LIMIT limit OFFSET offset  on the ordered rows; SQLite takes a negative
   limit as no limit and a negative offset as 0 *)
SqlLimit(rows, limit, offset) ==
    LET skip == Max(offset, 0)
    IN SubSeq(rows, skip + 1,
              IF limit < 0 THEN Len(rows) ELSE Min(skip + limit, Len(rows)))

(* list.sort(key=lambda x: x["relevance"], reverse=True): a stable sort, so x goes
   behind every element already placed whose relevance is at least its own *)
RECURSIVE InsertByRelevance(_, _)
InsertByRelevance(sorted, x) ==
    IF sorted = <<>> THEN <<x>>
    ELSE IF Head(sorted).relevance >= x.relevance
         THEN <<Head(sorted)>> \o InsertByRelevance(Tail(sorted), x)
         ELSE <<x>> \o sorted

(* the list left in the order it was built in *)
SortByRelevanceUnsorted(s) == s

RECURSIVE SortByRelevance(_)
SortByRelevance(s) ==
    IF s = <<>> THEN <<>>
    ELSE InsertByRelevance(SortByRelevance(SubSeq(s, 1, Len(s) - 1)), s[Len(s)])

(***************************************************************************)
(* Notes store queries.                                                    *)
(***************************************************************************)
(* ConfigManager.is_ai_enabled() and not ConfigManager.is_offline_mode() *)
AiAvailable == config.ai_enabled /\ ~config.offline_mode

(* IdeaManager.get_idea(idea_id) finds a row *)
IdeaExists(id) == id \in DOMAIN ideas

(* IdeaManager.get_idea_tags: the ids of the Tags rows joined to the idea *)
IdeaTagIds(id) == {t \in tags : <<id, t>> \in ideaTags}

(* an order of the Ideas rows that ORDER BY created_at DESC may produce; rows with
   equal created_at come in an order SQL leaves open *)
CreatedOrders ==
    {o \in Perms(DOMAIN ideas) :
        \A i, j \in 1..Len(o) : i < j => ideas[o[i]].created_at >= ideas[o[j]].created_at}

NoFilters ==
    [has_archived |-> FALSE, is_archived |-> FALSE,
     has_favorite |-> FALSE, is_favorite |-> FALSE, tag_ids |-> {}]

(* the WHERE clause of the keyword query *)
KeywordWhere(id, query, filters) ==
    /\ \/ LikeMatch(LikePattern(query), ideas[id].content)
       \/ LikeMatch(LikePattern(query), ideas[id].title)
    /\ filters.has_archived => ideas[id].is_archived = filters.is_archived
    /\ filters.has_favorite => ideas[id].is_favorite = filters.is_favorite
    /\ filters.tag_ids # {} => \E t \in filters.tag_ids : <<id, t>> \in ideaTags

(* the score without the final min(1.0, score) *)
CalculateKeywordRelevanceUnclamped(id, query) ==
    StrCount(Lower(ideas[id].content), Lower(query)) * 1
        + StrCount(Lower(ideas[id].title), Lower(query)) * 5

(* SearchEngine._calculate_keyword_relevance, in tenths *)
CalculateKeywordRelevance(id, query) ==
    LET content_count == StrCount(Lower(ideas[id].content), Lower(query))
        title_count == StrCount(Lower(ideas[id].title), Lower(query))
        score == content_count * 1 + title_count * 5
    IN Min(10, score)

(* the rows of the keyword query, in the order LIMIT / OFFSET leave them *)
KeywordRows(query, limit, offset, filters, order) ==
    LET Hit(id) == KeywordWhere(id, query, filters)
    IN SqlLimit(SelectSeq(order, Hit), limit, offset)

(* the loop and the sort of _keyword_search over fetched rows *)
KeywordRanked(rows, query) ==
    SortByRelevance([i \in 1..Len(rows) |->
                        [id |-> rows[i],
                         relevance |-> CalculateKeywordRelevance(rows[i], query),
                         search_source |-> "none"]])

(* SearchEngine._keyword_search; order is the row order of the Ideas table *)
KeywordSearch(query, limit, offset, filters, order) ==
    KeywordRanked(KeywordRows(query, limit, offset, filters, order), query)

(***************************************************************************)
(* Vector index (the ChromaDB collection "ideas_embeddings").              *)
(*                                                                         *)
(* The embeddings and so the distances belong to the index: one query is   *)
(* answered from env, which says whether the call raises and, if not, how  *)
(* the index ranks its entries for the query text, nearest first.          *)
(***************************************************************************)
IndexEnvs ==
    LET n == Cardinality(DOMAIN vindex)
        ranks == {r \in [1..n -> [idea_id : DOMAIN vindex, distance : Distances]] :
                    /\ \A i, j \in 1..n : i < j =>
                          /\ r[i].idea_id # r[j].idea_id
                          /\ r[i].distance <= r[j].distance}
    IN [fails : {FALSE}, rank : ranks] \cup {[fails |-> TRUE, rank |-> <<>>]}

(* get_related_ideas reads the ranking alone, not the distances: the answers of
   the index that differ in the ranking *)
RankEnvs ==
    {e \in IndexEnvs : \A i \in 1..Len(e.rank) : \A d \in Distances : e.rank[i].distance <= d}

(* the index is not called *)
QuietEnv == [fails |-> FALSE, rank |-> <<>>]

NoWhere == [has_archived |-> FALSE, is_archived |-> FALSE,
            has_favorite |-> FALSE, is_favorite |-> FALSE]

(* VectorDBManager.search_similar_ideas, when collection.query does not raise *)
SearchSimilarIdeas(env, n_results, where) ==
    LET Hit(e) ==
            /\ where.has_archived => vindex[e.idea_id].is_archived = where.is_archived
            /\ where.has_favorite => vindex[e.idea_id].is_favorite = where.is_favorite
    IN Slice(SelectSeq(env.rank, Hit), 0, n_results)

(* metadata_filter built by _vector_search from filters *)
MetadataFilter(filters) ==
    [has_archived |-> filters.has_archived, is_archived |-> filters.is_archived,
     has_favorite |-> filters.has_favorite, is_favorite |-> filters.is_favorite]

(* 1.0 - (similar["distance"] or 0.0) *)
DistanceToRelevance(distance) == 10 - distance

(* the fallback with the offset dropped, as _hybrid_search passes it *)
VectorFallbackNoOffset(query, limit, offset, filters, order) ==
    KeywordSearch(query, limit, 0, filters, order)

(* the fallback of _vector_search, with AI off and after an exception:
   return self._keyword_search(query, limit, offset, filters) *)
VectorFallback(query, limit, offset, filters, order) ==
    KeywordSearch(query, limit, offset, filters, order)

(* SearchEngine._vector_search *)
VectorSearch(query, limit, offset, filters, order, env) ==
    IF ~config.ai_enabled \/ config.offline_mode
    THEN VectorFallback(query, limit, offset, filters, order)
    ELSE IF env.fails
    THEN VectorFallback(query, limit, offset, filters, order)
    ELSE
        LET similar_ideas ==
                Slice(SearchSimilarIdeas(env, limit + offset, MetadataFilter(filters)),
                      offset, offset + limit)
            Keep(e) ==
                /\ IdeaExists(e.idea_id)
                /\ filters.tag_ids # {} => filters.tag_ids \subseteq IdeaTagIds(e.idea_id)
            kept == SelectSeq(similar_ideas, Keep)
        IN [i \in 1..Len(kept) |->
                [id |-> kept[i].idea_id,
                 relevance |-> DistanceToRelevance(kept[i].distance),
                 search_source |-> "none"]]

(* position of id in the list of result records, 0 when absent *)
IndexOfId(results, id) ==
    IF \E i \in 1..Len(results) : results[i].id = id
    THEN CHOOSE i \in 1..Len(results) :
            results[i].id = id /\ \A j \in 1..(i - 1) : results[j].id # id
    ELSE 0

(* the vector hit overwrites the relevance of the keyword hit *)
MergedRelevanceOverwrite(a, b) == b

(* the relevance two hits of one idea are merged to *)
MergedRelevance(a, b) == Max(a, b)

(* the loops of _hybrid_search that fill merged_results; a dict keeps its keys
   in insertion order, so list(merged_results.values()) is this sequence *)
RECURSIVE AddVectorResults(_, _)
AddVectorResults(merged, vector_results) ==
    IF vector_results = <<>> THEN merged
    ELSE LET idea == Head(vector_results)
             k == IndexOfId(merged, idea.id)
         IN AddVectorResults(
                IF k # 0
                THEN [merged EXCEPT ![k] =
                        [id |-> idea.id,
                         relevance |-> MergedRelevance(merged[k].relevance, idea.relevance),
                         search_source |-> "both"]]
                ELSE Append(merged, [idea EXCEPT !.search_source = "vector"]),
                Tail(vector_results))

(* the two sub-results put one behind the other, without the dict keyed by id *)
MergeResultsConcatenated(keyword_results, vector_results) ==
    [i \in 1..Len(keyword_results) |->
        [keyword_results[i] EXCEPT !.search_source = "keyword"]]
    \o [i \in 1..Len(vector_results) |->
        [vector_results[i] EXCEPT !.search_source = "vector"]]

(* the merged_results dict of _hybrid_search, in insertion order *)
MergeResults(keyword_results, vector_results) ==
    AddVectorResults(
        [i \in 1..Len(keyword_results) |->
            [keyword_results[i] EXCEPT !.search_source = "keyword"]],
        vector_results)

(* the two retrievals of _hybrid_search *)
HybridKeywordResults(query, limit, filters, order) ==
    KeywordSearch(query, limit, 0, filters, order)

HybridVectorResults(query, limit, filters, order, env) ==
    VectorSearch(query, limit, 0, filters, order, env)

(* SearchEngine._hybrid_search *)
HybridSearch(query, limit, offset, filters, order, env) ==
    IF ~config.ai_enabled \/ config.offline_mode
    THEN KeywordSearch(query, limit, offset, filters, order)
    ELSE LET keyword_results == HybridKeywordResults(query, limit, filters, order)
             vector_results == HybridVectorResults(query, limit, filters, order, env)
             results == SortByRelevance(MergeResults(keyword_results, vector_results))
         IN Slice(results, offset, offset + limit)

(* search without the test "if not query: return []" *)
SearchResultNoEmptyCheck(query, search_type, limit, offset, filters, order, env) ==
    IF search_type = "keyword" THEN KeywordSearch(query, limit, offset, filters, order)
    ELSE IF search_type = "vector"
         THEN VectorSearch(query, limit, offset, filters, order, env)
    ELSE HybridSearch(query, limit, offset, filters, order, env)

(* SearchEngine.search, when no query of the notes store raises *)
SearchResult(query, search_type, limit, offset, filters, order, env) ==
    IF query = <<>> THEN <<>>
    ELSE IF search_type = "keyword" THEN KeywordSearch(query, limit, offset, filters, order)
    ELSE IF search_type = "vector"
         THEN VectorSearch(query, limit, offset, filters, order, env)
    ELSE HybridSearch(query, limit, offset, filters, order, env)

(* _vector_search runs a query of the notes store: the keyword fallback, or
   get_idea for the first entry the index returned *)
VectorQueriesStore(limit, offset, filters, env) ==
    \/ ~AiAvailable
    \/ env.fails
    \/ Slice(SearchSimilarIdeas(env, limit + offset, MetadataFilter(filters)),
             offset, offset + limit) # <<>>

(* search runs a query of the notes store *)
SearchQueriesStore(query, search_type, limit, offset, filters, env) ==
    /\ query # <<>>
    /\ search_type = "vector" => VectorQueriesStore(limit, offset, filters, env)

(* search raises: no query of the notes store is guarded in _keyword_search, and
   every except branch of _vector_search and _hybrid_search ends in
   _keyword_search; db_fails: the queries of the notes store raise during the call *)
SearchRaises(query, search_type, limit, offset, filters, env, db_fails) ==
    db_fails /\ SearchQueriesStore(query, search_type, limit, offset, filters, env)

(***************************************************************************)
(* Related ideas.                                                          *)
(***************************************************************************)
(* an order of the Relations rows that ORDER BY confidence DESC may produce *)
ConfidenceOrders ==
    {o \in Perms(1..Len(relations)) :
        \A i, j \in 1..Len(o) : i < j =>
            relations[o[i]].confidence >= relations[o[j]].confidence}

(* the first query of get_related_ideas: the Ideas rows joined to the Relations
   rows of the source idea, by confidence descending, LIMIT limit *)
RelatedFromRelations(idea_id, limit, rorder) ==
    LET Joined(k) ==
            /\ relations[k].source_idea_id = idea_id
            /\ IdeaExists(relations[k].target_idea_id)
        rows == SqlLimit(SelectSeq(rorder, Joined), limit, 0)
    IN [i \in 1..Len(rows) |-> relations[rows[i]].target_idea_id]

(* the early return taken only with more rows than limit *)
EnoughFromRelationsStrict(related_from_relations, limit) ==
    Len(related_from_relations) > limit

(* if len(related_from_relations) >= limit *)
EnoughFromRelations(related_from_relations, limit) ==
    Len(related_from_relations) >= limit

(* the slice left out *)
TakeFirstUncut(s, n) == s

(* Python s[:n] *)
TakeFirst(s, n) == Slice(s, 0, n)

(* COUNT(it.tag_id) of the tag query, for one idea *)
TagCount(id, tag_ids) == Cardinality({t \in tag_ids : <<id, t>> \in ideaTags})

(* the rows of order whose tag count is c, c - 1, ... 1, in that order *)
RECURSIVE ByTagCount(_, _, _)
ByTagCount(order, tag_ids, c) ==
    IF c <= 0 THEN <<>>
    ELSE LET Has(id) == TagCount(id, tag_ids) = c
         IN SelectSeq(order, Has) \o ByTagCount(order, tag_ids, c - 1)

(* the tag query without "AND i.id NOT IN (...)" *)
RelatedFromTagsUnexcluded(idea_id, tag_ids, related_from_relations, remaining, order) ==
    LET Candidate(id) == id # idea_id
        rows == ByTagCount(SelectSeq(order, Candidate), tag_ids, Cardinality(tag_ids))
    IN SqlLimit(rows, remaining, 0)

(* the tag query of get_related_ideas: ORDER BY tag_count DESC, created_at DESC *)
RelatedFromTags(idea_id, tag_ids, related_from_relations, remaining, order) ==
    LET Candidate(id) ==
            /\ id # idea_id
            /\ id \notin Range(related_from_relations)
        rows == ByTagCount(SelectSeq(order, Candidate), tag_ids, Cardinality(tag_ids))
    IN SqlLimit(rows, remaining, 0)

(* the vector branch of get_related_ideas, when the index call does not raise *)
RelatedFromVectors(idea_id, remaining, env) ==
    LET NotSelf(e) == e.idea_id # idea_id
        Found(e) == IdeaExists(e.idea_id)
        similar_ideas ==
            TakeFirst(SelectSeq(SearchSimilarIdeas(env, remaining + 1, NoWhere), NotSelf),
                      remaining)
        kept == SelectSeq(similar_ideas, Found)
    IN [i \in 1..Len(kept) |-> kept[i].idea_id]

(* get_related_ideas whose except branch returns the relation rows instead of
   going on to the tags *)
GetRelatedIdeasNoTagsAfterFailure(idea_id, limit, order, rorder, env) ==
    LET related_from_relations == RelatedFromRelations(idea_id, limit, rorder)
        remaining == limit - Len(related_from_relations)
        idea_tags == IdeaTagIds(idea_id)
    IN IF ~IdeaExists(idea_id)
       THEN [result |-> <<>>, vector_query |-> FALSE, tag_query |-> FALSE]
       ELSE IF EnoughFromRelations(related_from_relations, limit)
       THEN [result |-> TakeFirst(related_from_relations, limit),
             vector_query |-> FALSE, tag_query |-> FALSE]
       ELSE IF AiAvailable /\ ~env.fails
       THEN [result |-> TakeFirst(related_from_relations
                                    \o RelatedFromVectors(idea_id, remaining, env), limit),
             vector_query |-> TRUE, tag_query |-> FALSE]
       ELSE IF idea_tags = {} \/ AiAvailable
       THEN [result |-> related_from_relations,
             vector_query |-> AiAvailable, tag_query |-> FALSE]
       ELSE [result |-> TakeFirst(related_from_relations
                                    \o RelatedFromTags(idea_id, idea_tags,
                                                       related_from_relations,
                                                       remaining, order), limit),
             vector_query |-> FALSE, tag_query |-> TRUE]

(* SearchEngine.get_related_ideas: the ids of the returned ideas, and which of the
   later queries the call made *)
GetRelatedIdeas(idea_id, limit, order, rorder, env) ==
    LET related_from_relations == RelatedFromRelations(idea_id, limit, rorder)
        remaining == limit - Len(related_from_relations)
        idea_tags == IdeaTagIds(idea_id)
    IN IF ~IdeaExists(idea_id)
       THEN [result |-> <<>>, vector_query |-> FALSE, tag_query |-> FALSE]
       ELSE IF EnoughFromRelations(related_from_relations, limit)
       THEN [result |-> TakeFirst(related_from_relations, limit),
             vector_query |-> FALSE, tag_query |-> FALSE]
       ELSE IF AiAvailable /\ ~env.fails
       THEN [result |-> TakeFirst(related_from_relations
                                    \o RelatedFromVectors(idea_id, remaining, env), limit),
             vector_query |-> TRUE, tag_query |-> FALSE]
       ELSE IF idea_tags = {}
       THEN [result |-> related_from_relations,
             vector_query |-> AiAvailable, tag_query |-> FALSE]
       ELSE [result |-> TakeFirst(related_from_relations
                                    \o RelatedFromTags(idea_id, idea_tags,
                                                       related_from_relations,
                                                       remaining, order), limit),
             vector_query |-> AiAvailable, tag_query |-> TRUE]

(***************************************************************************)
(* EmbeddingGenerator.                                                     *)
(***************************************************************************)
(* embedding_dim *)
EmbeddingDim == 1536

(* seeds of the str hash; a process draws one when it starts *)
HashSeeds == {0, 1}

(* texts handed to generate_embedding: "", " ", "a", "a b b", "A a b" *)
EmbedTexts == { <<>>, <<0>>, <<1>>, <<1, 2, 2>>, <<0 - 1, 1, 2>> }

(* a text of embedding_dim + 1 different words *)
LongText == [i \in 1..(EmbeddingDim + 1) |-> i]

(* str.lower() on one word *)
LowerWord(w) == IF w < 0 THEN 0 - w ELSE w

(* text.lower().split() *)
Split(text) ==
    LET NotBlank(w) == w # 0
    IN SelectSeq([i \in 1..Len(text) |-> LowerWord(text[i])], NotBlank)

(* the order in which a set of str is iterated: it follows the hashes, which
   the seed of the process fixes; two of the orders are told apart here *)
SetOrder(S, seed) ==
    IF S = {} THEN <<>>
    ELSE LET lo == CHOOSE x \in S : \A y \in S : x <= y
             hi == CHOOSE x \in S : \A y \in S : x >= y
             In(x) == x \in S
             up == SelectSeq([i \in 1..(hi - lo + 1) |-> lo + i - 1], In)
         IN IF seed = 0 THEN up
            ELSE [i \in 1..Len(up) |-> up[Len(up) + 1 - i]]

(* words.count(word) *)
WordCount(words, word) == Cardinality({k \in 1..Len(words) : words[k] = word})

(* one component of a vector: num / sqrt(norm2) *)
ZeroComponent == [num |-> 0, norm2 |-> 1]

(* generate_embedding returned None *)
NoEmbedding == [kind |-> "none", vector |-> <<>>]

(* _generate_fallback_embedding with a vector longer than embedding_dim left as
   it is *)
GenerateFallbackEmbeddingUncut(text, seed) ==
    LET words == Split(text)
        word_set == SetOrder(Range(words), seed)
        norm2 == Cardinality({p \in (1..Len(words)) \X (1..Len(words)) :
                                words[p[1]] = words[p[2]]})
        vector == [i \in 1..Len(word_set) |->
                     [num |-> WordCount(words, word_set[i]), norm2 |-> norm2]]
    IN vector \o [i \in 1..(EmbeddingDim - Len(vector)) |-> ZeroComponent]

(* EmbeddingGenerator._generate_fallback_embedding; np.linalg.norm(vector) ** 2
   is the sum of the squared counts, the number of pairs of equal words *)
GenerateFallbackEmbedding(text, seed) ==
    LET words == Split(text)
        word_set == SetOrder(Range(words), seed)
        norm2 == Cardinality({p \in (1..Len(words)) \X (1..Len(words)) :
                                words[p[1]] = words[p[2]]})
        vector == [i \in 1..Len(word_set) |->
                     [num |-> WordCount(words, word_set[i]), norm2 |-> norm2]]
    IN IF Len(vector) < EmbeddingDim
       THEN vector \o [i \in 1..(EmbeddingDim - Len(vector)) |-> ZeroComponent]
       ELSE Slice(vector, 0, EmbeddingDim)

(* what AIService.generate_embedding may return: None (not available, a failed
   request, a response without data) or, when available, the provider's vector *)
RemoteOutcomes == IF AiAvailable THEN {"none", "vector"} ELSE {"none"}

(* EmbeddingGenerator.generate_embedding; the provider's vector is not looked into *)
GenerateEmbedding(text, remote, seed) ==
    IF text = <<>> THEN NoEmbedding
    ELSE IF remote = "vector" THEN [kind |-> "remote", vector |-> <<>>]
    ELSE [kind |-> "local", vector |-> GenerateFallbackEmbedding(text, seed)]

(* the threads that call the search engine, and a thread outside a call *)
Threads == {1, 2}

NoThread ==
    [pc |-> "idle", op |-> "none", query |-> <<>>, limit |-> 0, idea_id |-> 0,
     order |-> <<>>, rorder |-> <<>>, cursor |-> <<>>, related |-> <<>>,
     idea_tags |-> {}, result |-> <<>>]

(***************************************************************************)
(* State after construction: empty tables, an empty collection, and the    *)
(* default configuration (ai.enabled and ai.offline_mode both False).      *)
(***************************************************************************)
NoCall ==
    [op |-> "none", query |-> <<>>, search_type |-> "none", limit |-> 0, offset |-> 0,
     filters |-> NoFilters, idea_id |-> 0, order |-> <<>>, rorder |-> <<>>,
     env |-> QuietEnv, db_fails |-> FALSE,
     text |-> <<>>, remote |-> "none", embedding |-> NoEmbedding,
     earlier |-> [has |-> FALSE, remote |-> "none", embedding |-> NoEmbedding],
     result |-> <<>>, raised |-> FALSE, store_query |-> FALSE,
     vector_query |-> FALSE, tag_query |-> FALSE]

Init ==
    /\ ideas = <<>>
    /\ seq = 0
    /\ clock = 1
    /\ tags = {}
    /\ ideaTags = {}
    /\ relations = <<>>
    /\ vindex = <<>>
    /\ config = [ai_enabled |-> FALSE, offline_mode |-> FALSE]
    /\ last = NoCall
    /\ hashseed = 0
    /\ threads = [t \in Threads |-> NoThread]

(* no call of the search engine is waiting for its caller; last holds the
   arguments and the return value of a call until the caller has taken them *)
Idle == last.op = "none"

(* the caller takes the return value *)
Return ==
    /\ ~Idle
    /\ last' = NoCall
    /\ UNCHANGED <<threads, hashseed, ideas, seq, clock, tags, ideaTags, relations, vindex, config>>

(* a function without the key k *)
Without(f, k) == [x \in DOMAIN f \ {k} |-> f[x]]

(* a function with the key k (new or not) set to v *)
With(f, k, v) == [x \in DOMAIN f \cup {k} |-> IF x = k THEN v ELSE f[x]]

(* the metadata add_idea_embedding / update_idea_embedding store with the text *)
IndexEntry(idea) ==
    [document |-> idea.content,
     is_archived |-> idea.is_archived, is_favorite |-> idea.is_favorite]

(* one second passes (CURRENT_TIMESTAMP has the resolution of a second) *)
Tick ==
    /\ Idle
    /\ clock <= seq
    /\ clock' = clock + 1
    /\ UNCHANGED <<threads, hashseed, last, ideas, seq, tags, ideaTags, relations, vindex, config>>

(* IdeaManager.create_idea(content, title); index_ok: add_idea_embedding does
   not raise *)
CreateIdea(contents, titles, max_ideas) ==
    \E content \in contents, title \in titles, index_ok \in BOOLEAN :
        LET idea_id == seq + 1
            idea == [title |-> title, content |-> content,
                     created_at |-> clock, updated_at |-> clock,
                     is_archived |-> FALSE, is_favorite |-> FALSE]
        IN /\ Idle
           /\ seq < max_ideas
           /\ (~AiAvailable => index_ok)
           /\ seq' = idea_id
           /\ ideas' = With(ideas, idea_id, idea)
           /\ vindex' = IF AiAvailable /\ index_ok
                        THEN With(vindex, idea_id, IndexEntry(idea))
                        ELSE vindex
           /\ UNCHANGED <<threads, hashseed, last, clock, tags, ideaTags, relations, config>>

NoUpdate ==
    [has_content |-> FALSE, content |-> <<>>, has_title |-> FALSE, title |-> <<>>,
     has_archived |-> FALSE, is_archived |-> FALSE,
     has_favorite |-> FALSE, is_favorite |-> FALSE]

ContentUpdates(contents) ==
    {[NoUpdate EXCEPT !.has_content = TRUE, !.content = c] : c \in contents}

TitleUpdates(titles) ==
    {[NoUpdate EXCEPT !.has_title = TRUE, !.title = t] : t \in titles}

ArchiveUpdates == {[NoUpdate EXCEPT !.has_archived = TRUE, !.is_archived = b] : b \in BOOLEAN}

FavoriteUpdates == {[NoUpdate EXCEPT !.has_favorite = TRUE, !.is_favorite = b] : b \in BOOLEAN}

(* IdeaManager.update_idea(idea_id, content, title, is_archived, is_favorite);
   the trigger update_ideas_timestamp sets updated_at *)
UpdateIdea(updates) ==
    \E idea_id \in DOMAIN ideas, u \in updates, index_ok \in BOOLEAN :
        LET old == ideas[idea_id]
            updated_idea ==
                [old EXCEPT
                    !.content = IF u.has_content THEN u.content ELSE @,
                    !.title = IF u.has_title THEN u.title ELSE @,
                    !.is_archived = IF u.has_archived THEN u.is_archived ELSE @,
                    !.is_favorite = IF u.has_favorite THEN u.is_favorite ELSE @,
                    !.updated_at = clock]
            reindex == (u.has_content \/ u.has_title) /\ AiAvailable
        IN /\ Idle
           /\ u.has_content \/ u.has_title \/ u.has_archived \/ u.has_favorite
           /\ (~reindex => index_ok)
           /\ ideas' = [ideas EXCEPT ![idea_id] = updated_idea]
           /\ vindex' = IF reindex /\ index_ok /\ idea_id \in DOMAIN vindex
                        THEN [vindex EXCEPT ![idea_id] = IndexEntry(updated_idea)]
                        ELSE vindex
           /\ UNCHANGED <<threads, hashseed, last, seq, clock, tags, ideaTags, relations, config>>

(* IdeaManager.delete_idea(idea_id): the connection never turns foreign keys on,
   so the IdeaTags and Relations rows of the idea stay *)
DeleteIdea(idea_ids) ==
    \E idea_id \in idea_ids \cap DOMAIN ideas, index_ok \in BOOLEAN :
        /\ Idle
        /\ (~config.ai_enabled => index_ok)
        /\ ideas' = Without(ideas, idea_id)
        /\ vindex' = IF config.ai_enabled /\ index_ok
                     THEN Without(vindex, idea_id)
                     ELSE vindex
        /\ UNCHANGED <<threads, hashseed, last, seq, clock, tags, ideaTags, relations, config>>

(* ConfigManager.set("ai", "enabled" | "offline_mode", value) *)
ConfigSet(keys) ==
    \E key \in keys, value \in BOOLEAN :
        /\ Idle
        /\ config[key] # value
        /\ config' = [config EXCEPT ![key] = value]
        /\ UNCHANGED <<threads, hashseed, last, ideas, seq, clock, tags, ideaTags, relations, vindex>>

(* TagManager.create_tag(name) with a new name *)
CreateTag(tag_ids) ==
    \E tag_id \in tag_ids \ tags :
        /\ Idle
        /\ \A t \in tag_ids : t < tag_id => t \in tags
        /\ tags' = tags \cup {tag_id}
        /\ UNCHANGED <<threads, hashseed, last, ideas, seq, clock, ideaTags, relations, vindex, config>>

(* IdeaManager.add_tag_to_idea(idea_id, tag_id) *)
AddTagToIdea ==
    \E idea_id \in DOMAIN ideas, tag_id \in tags :
        /\ Idle
        /\ <<idea_id, tag_id>> \notin ideaTags
        /\ ideaTags' = ideaTags \cup {<<idea_id, tag_id>>}
        /\ UNCHANGED <<threads, hashseed, last, ideas, seq, clock, tags, relations, vindex, config>>

(* a row written to Relations by the analysis that curates the edges; the table
   constrains neither the pair of ideas nor its repetition *)
AddRelation(sources) ==
    \E source \in sources \cap DOMAIN ideas, target \in DOMAIN ideas,
       confidence \in Confidences :
        /\ Idle
        /\ Len(relations) < MaxRelations
        /\ relations' = Append(relations,
                               [source_idea_id |-> source, target_idea_id |-> target,
                                confidence |-> confidence])
        /\ UNCHANGED <<threads, hashseed, last, ideas, seq, clock, tags, ideaTags, vindex, config>>

(* a retrieval call that drops the entries of the index it has queried *)
RetrievalFrameIndexDropped ==
    /\ vindex' = <<>>
    /\ UNCHANGED <<ideas, seq, clock, tags, ideaTags, relations, config>>

(* what search and get_related_ideas do to the store and the index: their
   statements are SELECTs and collection.query, none writes or commits *)
RetrievalFrame ==
    UNCHANGED <<ideas, seq, clock, tags, ideaTags, relations, vindex, config>>

(* the call reaches VectorDBManager.search_similar_ideas; in _hybrid_search the
   keyword retrieval comes first and a raise there skips the index *)
SearchCallsIndex(query, search_type, db_fails) ==
    /\ query # <<>> /\ search_type # "keyword" /\ AiAvailable
    /\ ~(search_type = "hybrid" /\ db_fails)

(* SearchEngine.search(query, search_type, limit, offset, filters) *)
Search(queries, search_types, filter_choices, limits, db_faults) ==
    \E query \in queries, search_type \in search_types, db_fails \in db_faults :
      \E env \in IF SearchCallsIndex(query, search_type, db_fails)
                  THEN IndexEnvs ELSE {QuietEnv},
         order \in CreatedOrders,
         limit \in limits, offset \in 0..MaxLimit, filters \in filter_choices :
        LET raises == SearchRaises(query, search_type, limit, offset, filters,
                                   env, db_fails)
        IN
        /\ Idle
        /\ last' = [NoCall EXCEPT
                        !.op = "search", !.query = query, !.search_type = search_type,
                        !.limit = limit, !.offset = offset, !.filters = filters,
                        !.order = order, !.env = env, !.db_fails = db_fails,
                        !.raised = raises,
                        !.store_query = SearchQueriesStore(query, search_type, limit,
                                                           offset, filters, env),
                        !.vector_query = SearchCallsIndex(query, search_type, db_fails),
                        !.result = IF raises THEN <<>>
                                   ELSE SearchResult(query, search_type, limit, offset,
                                                     filters, order, env)]
        /\ RetrievalFrame
        /\ UNCHANGED <<threads, hashseed>>

(* the call reaches VectorDBManager.search_similar_ideas, whatever order the
   Relations rows come in (the number of joined rows does not depend on it) *)
RelatedCallsIndex(idea_id, limit) ==
    /\ IdeaExists(idea_id)
    /\ AiAvailable
    /\ \A rorder \in ConfidenceOrders :
          ~EnoughFromRelations(RelatedFromRelations(idea_id, limit, rorder), limit)

(* SearchEngine.get_related_ideas(idea_id, limit) *)
Related(idea_ids, limits) ==
    \E idea_id \in idea_ids, limit \in limits :
      \E env \in IF RelatedCallsIndex(idea_id, limit) THEN RankEnvs ELSE {QuietEnv},
         rorder \in ConfidenceOrders :
      \E order \in IF GetRelatedIdeas(idea_id, limit, <<>>, rorder, env).tag_query
                    THEN CreatedOrders ELSE {<<>>} :
        LET r == GetRelatedIdeas(idea_id, limit, order, rorder, env)
        IN /\ Idle
           /\ last' = [NoCall EXCEPT
                        !.op = "get_related_ideas", !.idea_id = idea_id, !.limit = limit,
                        !.order = order, !.rorder = rorder, !.env = env,
                        !.result = r.result, !.vector_query = r.vector_query,
                        !.tag_query = r.tag_query]
           /\ RetrievalFrame
           /\ UNCHANGED <<threads, hashseed>>

(* EmbeddingGenerator.generate_embedding(text) *)
Embed(texts) ==
    \E text \in texts, remote \in RemoteOutcomes :
        /\ Idle
        /\ last' = [NoCall EXCEPT
                        !.op = "generate_embedding", !.text = text, !.remote = remote,
                        !.embedding = GenerateEmbedding(text, remote, hashseed)]
        /\ UNCHANGED <<threads, hashseed, ideas, seq, clock, tags, ideaTags, relations, vindex, config>>

(* generate_embedding called once more with the text of the call before, whose
   result the caller has kept *)
EmbedAgain ==
    \E remote \in RemoteOutcomes :
        /\ last.op = "generate_embedding"
        /\ ~last.earlier.has
        /\ last' = [last EXCEPT
                        !.remote = remote,
                        !.embedding = GenerateEmbedding(last.text, remote, hashseed),
                        !.earlier = [has |-> TRUE, remote |-> last.remote,
                                     embedding |-> last.embedding]]
        /\ UNCHANGED <<threads, hashseed, ideas, seq, clock, tags, ideaTags, relations, vindex, config>>

(* the program is started again: the store, the index and the configuration
   are kept on disk, the seed of the str hashes is drawn anew *)
Restart ==
    \E seed \in HashSeeds :
        /\ seed # hashseed
        /\ hashseed' = seed
        /\ UNCHANGED <<threads, last, ideas, seq, clock, tags, ideaTags, relations, vindex, config>>

(***************************************************************************)
(* Calls on two threads.  A query of the notes store is two steps of its   *)
(* thread: execute puts the rows on the cursor, fetchall / fetchone takes  *)
(* them off it.  The queries that only decorate a row (tags, keywords,     *)
(* relations, reminders of an idea) are left out.                          *)
(***************************************************************************)
(* one cursor for all threads (self._cursor instead of self._local.cursor) *)
CursorKeyShared(thread) == 1

(* DatabaseManager._get_cursor: the cursor of the calling thread, kept in
   threading.local() *)
CursorKey(thread) == thread

(* ORDER BY t.name of get_idea_tags; tags are named in the order of their ids *)
TagRows(idea_id) ==
    LET Has(t) == t \in IdeaTagIds(idea_id)
    IN SelectSeq([i \in 1..MaxIdeas |-> i], Has)

(* the rows the statement a thread is about to execute puts on the cursor *)
StatementRows(th) ==
    CASE th.pc = "keyword_execute" ->
            KeywordRows(th.query, th.limit, 0, NoFilters, th.order)
      [] th.pc = "get_idea_execute" ->
            IF IdeaExists(th.idea_id) THEN <<th.idea_id>> ELSE <<>>
      [] th.pc = "relations_execute" ->
            RelatedFromRelations(th.idea_id, th.limit, th.rorder)
      [] th.pc = "idea_tags_execute" -> TagRows(th.idea_id)
      [] th.pc = "tag_overlap_execute" ->
            RelatedFromTags(th.idea_id, th.idea_tags, th.related,
                            th.limit - Len(th.related), th.order)

(* a thread enters search(query, "keyword", limit) or
   get_related_ideas(idea_id, limit) *)
ThreadCall(queries, idea_ids, limits) ==
    \E t \in Threads, op \in {"search", "get_related_ideas"}, limit \in limits,
       query \in queries, idea_id \in idea_ids,
       order \in CreatedOrders, rorder \in ConfidenceOrders :
        /\ Idle \/ last.op = "threads"
        /\ ~AiAvailable
        /\ threads[t].pc = "idle"
        /\ op = "search" => idea_id = 0
        /\ op = "get_related_ideas" => query = <<>>
        /\ query = <<>> => op = "get_related_ideas"
        /\ threads' = [threads EXCEPT ![t] =
                [NoThread EXCEPT
                    !.pc = IF op = "search" THEN "keyword_execute" ELSE "get_idea_execute",
                    !.op = op, !.query = query, !.limit = limit, !.idea_id = idea_id,
                    !.order = order,
                    !.rorder = IF op = "search" THEN <<>> ELSE rorder]]
        /\ last' = [NoCall EXCEPT !.op = "threads"]
        /\ UNCHANGED <<hashseed, ideas, seq, clock, tags, ideaTags, relations, vindex, config>>

ExecuteSteps ==
    {"keyword_execute", "get_idea_execute", "relations_execute",
     "idea_tags_execute", "tag_overlap_execute"}

(* DatabaseManager.execute on the cursor of the thread *)
ThreadExecute ==
    \E t \in Threads :
        /\ threads[t].pc \in ExecuteSteps
        /\ threads' = [threads EXCEPT
                          ![CursorKey(t)].cursor = StatementRows(threads[t]),
                          ![t].pc = CASE threads[t].pc = "keyword_execute" -> "keyword_fetch"
                                      [] threads[t].pc = "get_idea_execute" -> "get_idea_fetch"
                                      [] threads[t].pc = "relations_execute" -> "relations_fetch"
                                      [] threads[t].pc = "idea_tags_execute" -> "idea_tags_fetch"
                                      [] threads[t].pc = "tag_overlap_execute" -> "tag_overlap_fetch"]
        /\ UNCHANGED <<hashseed, last, ideas, seq, clock, tags, ideaTags, relations, vindex, config>>

(* what a thread does with the rows it fetches *)
AfterFetch(th, rows) ==
    CASE th.pc = "keyword_fetch" ->
            [th EXCEPT !.pc = "done", !.result = KeywordRanked(rows, th.query)]
      [] th.pc = "get_idea_fetch" ->
            IF rows = <<>> THEN [th EXCEPT !.pc = "done", !.result = <<>>]
            ELSE [th EXCEPT !.pc = "relations_execute"]
      [] th.pc = "relations_fetch" ->
            IF EnoughFromRelations(rows, th.limit)
            THEN [th EXCEPT !.pc = "done", !.result = TakeFirst(rows, th.limit)]
            ELSE [th EXCEPT !.pc = "idea_tags_execute", !.related = rows]
      [] th.pc = "idea_tags_fetch" ->
            IF rows = <<>> THEN [th EXCEPT !.pc = "done", !.result = th.related]
            ELSE [th EXCEPT !.pc = "tag_overlap_execute", !.idea_tags = Range(rows)]
      [] th.pc = "tag_overlap_fetch" ->
            [th EXCEPT !.pc = "done",
                       !.result = TakeFirst(th.related \o rows, th.limit)]

FetchSteps ==
    {"keyword_fetch", "get_idea_fetch", "relations_fetch",
     "idea_tags_fetch", "tag_overlap_fetch"}

(* DatabaseManager.fetchall / fetchone on the cursor of the thread *)
ThreadFetch ==
    \E t \in Threads :
        /\ threads[t].pc \in FetchSteps
        /\ threads' = [threads EXCEPT
                          ![t] = AfterFetch(threads[t], threads[CursorKey(t)].cursor)]
        /\ UNCHANGED <<hashseed, last, ideas, seq, clock, tags, ideaTags, relations, vindex, config>>

(* the callers take the return values of the calls that have returned *)
ThreadsJoin ==
    /\ last.op = "threads"
    /\ \A t \in Threads : threads[t].pc \in {"idle", "done"}
    /\ threads' = [t \in Threads |-> NoThread]
    /\ last' = NoCall
    /\ UNCHANGED <<hashseed, ideas, seq, clock, tags, ideaTags, relations, vindex, config>>

SearchTypes == {"keyword", "vector", "hybrid"}

ConfigKeys == {"ai_enabled", "offline_mode"}

(***************************************************************************)
(* Spec: the store under create / delete / configuration changes, and      *)
(* search in its three modes.                                              *)
(***************************************************************************)
Next ==
    \/ CreateIdea(Contents, Titles, MaxIdeas)
    \/ DeleteIdea(1..MaxIdeas)
    \/ ConfigSet(ConfigKeys)
    \/ Search(Queries, SearchTypes, {NoFilters}, 0..MaxLimit, {FALSE})
    \/ Return

Spec == Init /\ [][Next]_vars

(***************************************************************************)
(* SpecKeyword: keyword search with queries that hold LIKE wildcards and   *)
(* letters of either case, over ideas created in different seconds.        *)
(***************************************************************************)
NextKeyword ==
    \/ Tick
    \/ CreateIdea(Contents, Titles, MaxIdeas)
    \/ UpdateIdea(ContentUpdates(Contents) \cup ArchiveUpdates)
    \/ Search(WildQueries, {"keyword"}, {NoFilters}, 0..MaxLimit, {FALSE})
    \/ Return

SpecKeyword == Init /\ [][NextKeyword]_vars

(***************************************************************************)
(* SpecFilter: keyword and vector search with the archived filter, over    *)
(* ideas that are archived and restored after they were indexed.           *)
(***************************************************************************)
ArchivedFilters ==
    {[NoFilters EXCEPT !.has_archived = TRUE, !.is_archived = b] : b \in BOOLEAN}

NextFilter ==
    \/ CreateIdea({<<"a", "b", "a">>}, Titles, MaxIdeas)
    \/ UpdateIdea(ArchiveUpdates)
    \/ DeleteIdea(1..MaxIdeas)
    \/ ConfigSet(ConfigKeys)
    \/ Search({<<"a">>}, {"keyword", "vector"}, {NoFilters} \cup ArchivedFilters, 0..MaxLimit, {FALSE})
    \/ Return

SpecFilter == Init /\ [][NextFilter]_vars

(***************************************************************************)
(* SpecRelated: ideas of one text, one tag, relation edges of idea 1, and  *)
(* get_related_ideas.                                                      *)
(***************************************************************************)
NextRelated ==
    \/ CreateIdea({<<"b">>}, {<<"b">>}, MaxIdeas + 1)
    \/ DeleteIdea({2})
    \/ ConfigSet({"ai_enabled"})
    \/ CreateTag({1})
    \/ AddTagToIdea
    \/ AddRelation({1})
    \/ Related({0, 1}, 0..MaxLimit)
    \/ Return

SpecRelated == Init /\ [][NextRelated]_vars

(***************************************************************************)
(* SpecFaults: vector and hybrid search while the notes store may be out   *)
(* of reach (its queries raise) and the index call may raise.              *)
(***************************************************************************)
NextFaults ==
    \/ CreateIdea({<<"a", "b", "a">>}, Titles, MaxIdeas)
    \/ ConfigSet(ConfigKeys)
    \/ Search({<<"a">>}, {"vector", "hybrid"}, {NoFilters}, 0..MaxLimit, BOOLEAN)
    \/ Return

SpecFaults == Init /\ [][NextFaults]_vars

(***************************************************************************)
(* SpecNegative: keyword search and get_related_ideas called with the      *)
(* limit -1.                                                               *)
(***************************************************************************)
NegativeLimits == {0 - 1}

NextNegative ==
    \/ Tick
    \/ CreateIdea(Contents, {<<"b">>}, MaxIdeas)
    \/ AddRelation({1})
    \/ Search({<<"b">>}, {"keyword"}, {NoFilters}, NegativeLimits, {FALSE})
    \/ Related({1}, NegativeLimits)
    \/ Return

SpecNegative == Init /\ [][NextNegative]_vars

(***************************************************************************)
(* SpecEmbed: generate_embedding, with the provider in or out of reach,    *)
(* called again with the same text in the same or in a later run.          *)
(***************************************************************************)
NextEmbed ==
    \/ ConfigSet(ConfigKeys)
    \/ Restart
    \/ Embed(EmbedTexts \cup {LongText})
    \/ EmbedAgain
    \/ Return

SpecEmbed == Init /\ [][NextEmbed]_vars

(***************************************************************************)
(* SpecThreads: keyword search and get_related_ideas called on two threads *)
(* at once, AI disabled, the store unchanged while a call runs.            *)
(***************************************************************************)
NextThreads ==
    \/ CreateIdea({<<"a", "b", "a">>}, {<<"b">>}, MaxIdeas)
    \/ CreateTag({1})
    \/ AddTagToIdea
    \/ AddRelation({1})
    \/ ThreadCall({<<>>, <<"a">>}, {0, 1}, 1..MaxLimit)
    \/ ThreadExecute
    \/ ThreadFetch
    \/ ThreadsJoin

SpecThreads == Init /\ [][NextThreads]_vars

(***************************************************************************)
(* SpecFrame: every retrieval call over a store with ideas, tags, relations *)
(* and index entries.                                                      *)
(***************************************************************************)
NextFrame ==
    \/ CreateIdea({<<"a", "b", "a">>}, {<<"b">>}, MaxIdeas)
    \/ ConfigSet(ConfigKeys)
    \/ CreateTag({1})
    \/ AddTagToIdea
    \/ AddRelation({1})
    \/ Search({<<"a">>}, SearchTypes, {NoFilters}, {1}, BOOLEAN)
    \/ Related({1}, 1..MaxLimit)
    \/ Return

SpecFrame == Init /\ [][NextFrame]_vars

(***************************************************************************)
(* SpecTags: get_related_ideas with AI disabled over ideas created at       *)
(* different times and carrying up to two tags.                            *)
(***************************************************************************)
NextTags ==
    \/ Tick
    \/ CreateIdea({<<"b">>}, {<<"b">>}, MaxIdeas + 1)
    \/ CreateTag({1, 2})
    \/ AddTagToIdea
    \/ AddRelation({1})
    \/ Related({1}, 1..MaxLimit)
    \/ Return

SpecTags == Init /\ [][NextTags]_vars

(***************************************************************************)
(* Claims.                                                                 *)
(***************************************************************************)
(* last holds a search of type t with a query that is not empty *)
Searched(t) == last.op = "search" /\ last.search_type = t /\ last.query # <<>>

RelatedCalled == last.op = "get_related_ideas"

IdsOf(results) == {results[i].id : i \in 1..Len(results)}

(* the two sub-results of the hybrid search held by last *)
LastKeywordPart ==
    HybridKeywordResults(last.query, last.limit, last.filters, last.order)

LastVectorPart ==
    HybridVectorResults(last.query, last.limit, last.filters, last.order, last.env)

(* C1: every result of search, in every mode, carries a relevance between 0
   and 1 (0 and 10 tenths), whatever distance the vector index reports. *)
C1_RelevanceInUnitInterval ==
    last.op = "search" =>
        \A i \in 1..Len(last.result) :
            0 <= last.result[i].relevance /\ last.result[i].relevance <= 10

(* C2: in a hybrid search, an idea that is in the keyword sub-result with score
   sL and in the vector sub-result with score sV is merged into one entry with
   score max(sL, sV) and source "both"; every returned entry of such an idea
   is that entry. *)
C2_BothGetMaxAndBoth ==
    (Searched("hybrid") /\ AiAvailable) =>
        LET kw == LastKeywordPart
            vec == LastVectorPart
            merged == MergeResults(kw, vec)
            Expected(e) ==
                /\ e.relevance = Max(kw[IndexOfId(kw, e.id)].relevance,
                                     vec[IndexOfId(vec, e.id)].relevance)
                /\ e.search_source = "both"
        IN /\ \A x \in IdsOf(kw) \cap IdsOf(vec) :
                /\ Cardinality({j \in 1..Len(merged) : merged[j].id = x}) = 1
                /\ Expected(merged[IndexOfId(merged, x)])
           /\ \A i \in 1..Len(last.result) :
                last.result[i].id \in IdsOf(kw) \cap IdsOf(vec) => Expected(last.result[i])

(* C2 witness: a hybrid search over a working index returned an idea found by
   both retrievers, the vector score (0.7) above the keyword score. *)
C2_Witness ==
    /\ Searched("hybrid") /\ AiAvailable /\ ~last.env.fails
    /\ \E i \in 1..Len(last.result) :
          LET e == last.result[i]
          IN /\ e.search_source = "both"
             /\ e.id \in IdsOf(LastKeywordPart)
             /\ LastKeywordPart[IndexOfId(LastKeywordPart, e.id)].relevance < 7
             /\ e.relevance = 7

(* C3: a hybrid result is tagged "both" if and only if the idea was found by the
   keyword query and by the vector index; an idea the index did not return (also
   because the index call failed) is never tagged "both". *)
C3_BothIffFoundByBothPaths ==
    (Searched("hybrid") /\ AiAvailable) =>
        LET byIndex == IF last.env.fails THEN {} ELSE IdsOf(LastVectorPart)
        IN \A i \in 1..Len(last.result) :
              last.result[i].search_source = "both"
                  <=> (last.result[i].id \in IdsOf(LastKeywordPart)
                       /\ last.result[i].id \in byIndex)

(* C4: with AI disabled, in offline mode, or when the index call raises, a
   vector search returns the list the keyword search returns for the same query,
   limit, offset and filters on the same store. *)
C4_VectorDegradesToKeyword ==
    (Searched("vector") /\ (~AiAvailable \/ last.env.fails)) =>
        last.result = KeywordSearch(last.query, last.limit, last.offset,
                                    last.filters, last.order)

(* C4 witness: the index call raised during a vector search with an offset and a
   filter, and the search still returned an idea. *)
C4_Witness ==
    /\ Searched("vector") /\ AiAvailable /\ last.env.fails
    /\ last.offset > 0 /\ last.filters.has_archived
    /\ last.result # <<>>

(* the ids and scores of a result list *)
Scores(results) ==
    [i \in 1..Len(results) |-> <<results[i].id, results[i].relevance>>]

(* the hybrid ranking over every hit of either retriever *)
FullMerged ==
    LET all == Cardinality(DOMAIN ideas) + Cardinality(DOMAIN vindex)
    IN SortByRelevance(
          MergeResults(KeywordSearch(last.query, all, 0, last.filters, last.order),
                       IF AiAvailable
                       THEN VectorSearch(last.query, all, 0, last.filters,
                                         last.order, last.env)
                       ELSE <<>>))

(* C5: a hybrid search with (limit, offset) that merges the answers of both
   retrievers returns the entries at the ranks offset .. offset+limit-1 of the
   full merged, score-sorted result list. *)
C5_HybridPageOfFullRanking ==
    (Searched("hybrid") /\ AiAvailable /\ ~last.env.fails) =>
        Scores(last.result) = Scores(Slice(FullMerged, last.offset, last.offset + last.limit))

(* C6: get_related_ideas never returns the source idea itself. *)
C6_NeverReturnsSource ==
    RelatedCalled => last.idea_id \notin Range(last.result)

(* C7: get_related_ideas never returns the same idea twice. *)
C7_NoDuplicates ==
    RelatedCalled =>
        \A i, j \in 1..Len(last.result) : i # j => last.result[i] # last.result[j]

(* the Relations rows of the source idea of last that lead to a stored idea *)
LastEdges ==
    {k \in 1..Len(relations) :
        /\ relations[k].source_idea_id = last.idea_id
        /\ IdeaExists(relations[k].target_idea_id)}

(* C8: when the relation edges of the source idea number at least limit, the
   call returns the targets of the limit edges of highest confidence, by
   confidence descending, and queries neither the vector index nor the tags. *)
C8_EdgesAloneFillLimit ==
    (RelatedCalled /\ IdeaExists(last.idea_id) /\ Cardinality(LastEdges) >= last.limit) =>
        /\ ~last.vector_query
        /\ ~last.tag_query
        /\ Len(last.result) = last.limit
        /\ \E pick \in [1..last.limit -> LastEdges] :
              /\ \A i, j \in 1..last.limit : i < j =>
                    /\ pick[i] # pick[j]
                    /\ relations[pick[i]].confidence >= relations[pick[j]].confidence
              /\ \A k \in LastEdges \ Range(pick) : \A i \in 1..last.limit :
                    relations[k].confidence <= relations[pick[i]].confidence
              /\ \A i \in 1..last.limit :
                    last.result[i] = relations[pick[i]].target_idea_id

(* C8 witness: two edges of different confidence to two other ideas, limit 2,
   the index available and the source idea tagged: the call returned the two
   targets, the more confident first. *)
C8_Witness ==
    /\ RelatedCalled /\ last.limit = 2 /\ Cardinality(LastEdges) = 2
    /\ AiAvailable /\ IdeaTagIds(last.idea_id) # {}
    /\ Len(last.result) = 2
    /\ last.result[1] # last.result[2]
    /\ last.idea_id \notin Range(last.result)
    /\ \E k \in LastEdges : relations[k].confidence = 9
                            /\ relations[k].target_idea_id = last.result[1]
    /\ \E k \in LastEdges : relations[k].confidence = 4
                            /\ relations[k].target_idea_id = last.result[2]

(* C9: get_related_ideas returns at most limit ideas, on every path. *)
C9_AtMostLimit ==
    RelatedCalled => Len(last.result) <= last.limit

(* C9 witness: the vector tier filled a limit of 1 while the index held two
   other ideas. *)
C9_Witness ==
    /\ RelatedCalled /\ last.limit = 1 /\ last.vector_query
    /\ Cardinality(LastEdges) = 0
    /\ Cardinality(DOMAIN vindex \ {last.idea_id}) >= 2
    /\ Len(last.result) = 1

(* C10: keyword search never returns an idea whose relevance is zero: every
   returned idea contains the query, letters compared without case. *)
C10_NoZeroRelevance ==
    (last.op = "search" /\ last.search_type = "keyword") =>
        \A i \in 1..Len(last.result) : last.result[i].relevance > 0

(* the occurrences of q in s that can be counted together: the largest number
   of places where q stands in s, no two of them sharing a character *)
Occurrences(s, q) ==
    LET places == {p \in 1..(Len(s) - Len(q) + 1) : SubSeq(s, p, p + Len(q) - 1) = q}
        Apart(P) == \A x, y \in P : x < y => y - x >= Len(q)
        sizes == {Cardinality(P) : P \in {P \in SUBSET places : Apart(P)}}
    IN CHOOSE n \in sizes : \A m \in sizes : m <= n

(* C11: the score of every idea a keyword search returns is
   min(1, 0.1 * occurrences of the query in the content
          + 0.5 * occurrences in the title), letters compared without case
   (in tenths: min(10, 1 * content + 5 * title)). *)
C11_LexicalScore ==
    (last.op = "search" /\ last.search_type = "keyword") =>
        \A i \in 1..Len(last.result) :
            LET idea == ideas[last.result[i].id]
                sum == 1 * Occurrences(Lower(idea.content), Lower(last.query))
                       + 5 * Occurrences(Lower(idea.title), Lower(last.query))
            IN last.result[i].relevance = (IF sum > 10 THEN 10 ELSE sum)

(* C11 witness: of two stored ideas, the query "ab" with limit 2 returned exactly
   the one whose content holds it once, with score 0.1. *)
C11_Witness ==
    /\ last.op = "search" /\ last.search_type = "keyword"
    /\ last.query = <<"a", "b">> /\ last.limit = 2 /\ last.offset = 0
    /\ Cardinality(DOMAIN ideas) = 2
    /\ Len(last.result) = 1
    /\ last.result[1].relevance = 1
    /\ ideas[last.result[1].id].content = <<"a", "b", "a">>

(* C12: in the result of a keyword search, of two ideas with equal relevance the
   one updated more recently comes first. *)
C12_TiesByUpdatedAt ==
    (last.op = "search" /\ last.search_type = "keyword") =>
        \A i, j \in 1..Len(last.result) :
            (i < j /\ last.result[i].relevance = last.result[j].relevance) =>
                ideas[last.result[i].id].updated_at >= ideas[last.result[j].id].updated_at

(* C13: a search with the empty query returns the empty list in every mode,
   does not raise, and queries neither the notes store nor the vector index. *)
C13_EmptyQuery ==
    (last.op = "search" /\ last.query = <<>>) =>
        /\ last.result = <<>>
        /\ ~last.raised
        /\ ~last.store_query
        /\ ~last.vector_query

(* C13 witness: the empty query in hybrid mode with a limit above zero, the
   index available and holding an idea of the store. *)
C13_Witness ==
    /\ last.op = "search" /\ last.query = <<>> /\ last.search_type = "hybrid"
    /\ last.limit > 0 /\ last.offset = 0
    /\ AiAvailable
    /\ DOMAIN ideas \cap DOMAIN vindex # {}
    /\ last.result = <<>>

(* C14: an idea the archived / favorite filter of a search excludes, by its
   flags in the notes store, is returned by neither the keyword path nor the
   vector path. *)
C14_FiltersExcludeOnBothPaths ==
    (last.op = "search" /\ last.search_type \in {"keyword", "vector"}) =>
        \A i \in 1..Len(last.result) :
            LET idea == ideas[last.result[i].id]
            IN /\ last.filters.has_archived => idea.is_archived = last.filters.is_archived
               /\ last.filters.has_favorite => idea.is_favorite = last.filters.is_favorite

(* C15: a hybrid search does not raise when a retriever fails: with the notes
   store out of reach and the index failing or unused it returns the empty
   list, and with the index alone failing it returns the keyword page. *)
C15_HybridAbsorbsRetrieverFailure ==
    (last.op = "search" /\ last.search_type = "hybrid") =>
        /\ ~last.raised
        /\ (last.db_fails /\ (last.env.fails \/ ~last.vector_query)) => last.result = <<>>
        /\ (~last.db_fails /\ AiAvailable /\ last.env.fails) =>
              IdsOf(last.result) \subseteq
                  IdsOf(KeywordSearch(last.query, Cardinality(DOMAIN ideas), 0,
                                      last.filters, last.order))

(* C16: when the index call of get_related_ideas raises, the call does not
   raise; it returns the relation rows followed by the ideas that share a tag
   with the source idea (the source and the relation rows left out), most
   shared tags first, as many as fill the remaining slots. *)
C16_VectorFailureFallsToTags ==
    (RelatedCalled /\ last.vector_query /\ last.env.fails) =>
        LET rel == RelatedFromRelations(last.idea_id, last.limit, last.rorder)
            n == Len(rel)
            rest == SubSeq(last.result, n + 1, Len(last.result))
            Shared(id) == Cardinality({t \in IdeaTagIds(last.idea_id) : <<id, t>> \in ideaTags})
            candidates == {id \in DOMAIN ideas \ ({last.idea_id} \cup Range(rel)) :
                              Shared(id) > 0}
            slots == last.limit - n
        IN /\ ~last.raised
           /\ Len(last.result) >= n
           /\ SubSeq(last.result, 1, n) = rel
           /\ Len(rest) = (IF Cardinality(candidates) < slots
                           THEN Cardinality(candidates) ELSE slots)
           /\ \A i \in 1..Len(rest) : rest[i] \in candidates
           /\ \A i, j \in 1..Len(rest) : i < j =>
                  /\ rest[i] # rest[j]
                  /\ Shared(rest[i]) >= Shared(rest[j])

(* C16 witness: the index call raised, one relation row was found for a limit
   of 2, and the second slot was filled with an idea that shares the tag. *)
C16_Witness ==
    /\ RelatedCalled /\ last.vector_query /\ last.env.fails
    /\ last.limit = 2
    /\ Len(RelatedFromRelations(last.idea_id, last.limit, last.rorder)) = 1
    /\ Len(last.result) = 2
    /\ last.tag_query
    /\ \E t \in tags : <<last.idea_id, t>> \in ideaTags /\ <<last.result[2], t>> \in ideaTags

(* C17: a call of search or get_related_ideas with a negative limit is reported
   to the caller as an error and returns no result list. *)
C17_NegativeLimitIsAnError ==
    (last.op \in {"search", "get_related_ideas"} /\ last.limit < 0) => last.raised

(* all components of the vector are zero *)
IsZeroVector(v) == \A i \in 1..Len(v) : v[i].num = 0

(* C18: generate_embedding called with the empty text returns a vector of
   embedding_dim zeros. *)
C18_EmptyTextGivesZeroVector ==
    (last.op = "generate_embedding" /\ last.text = <<>>) =>
        /\ ~last.raised
        /\ last.embedding.kind # "none"
        /\ Len(last.embedding.vector) = EmbeddingDim
        /\ IsZeroVector(last.embedding.vector)

(* C19: two calls of generate_embedding with the same text, the provider out
   of reach in both, return the same vector. *)
C19_FallbackDeterministic ==
    (/\ last.op = "generate_embedding" /\ last.earlier.has
     /\ last.remote = "none" /\ last.earlier.remote = "none") =>
        last.embedding = last.earlier.embedding

(* C20: with the provider out of reach, generate_embedding returns for every
   text that is not empty a vector of exactly embedding_dim components: the
   counts of the different words, then zeros. *)
C20_FallbackHasConfiguredDimension ==
    (last.op = "generate_embedding" /\ last.text # <<>> /\ last.remote = "none") =>
        LET v == last.embedding.vector
            different == Cardinality(Range(Split(last.text)))
        IN /\ last.embedding.kind = "local"
           /\ Len(v) = EmbeddingDim
           /\ \A i \in 1..Len(v) : (v[i].num > 0) <=> (i <= different)

(* C20 witness: a text of embedding_dim + 1 different words was cut to
   embedding_dim components, none of them zero. *)
C20_Witness ==
    /\ last.op = "generate_embedding" /\ last.remote = "none"
    /\ Cardinality(Range(Split(last.text))) > EmbeddingDim
    /\ Len(last.embedding.vector) = EmbeddingDim
    /\ last.embedding.vector[EmbeddingDim].num > 0

(* C20 second case: a text of two different words was padded with zeros. *)
C20_PaddedWitness ==
    /\ last.op = "generate_embedding" /\ last.remote = "none"
    /\ Cardinality(Range(Split(last.text))) = 2
    /\ Len(last.embedding.vector) = EmbeddingDim
    /\ last.embedding.vector[2].num > 0
    /\ last.embedding.vector[3].num = 0

(* C21: when the index call raises, _vector_search does not raise and returns
   the empty list. *)
C21_VectorErrorGivesEmpty ==
    (Searched("vector") /\ AiAvailable /\ last.env.fails) =>
        /\ ~last.raised
        /\ last.result = <<>>

(* what the call of a thread returns when it runs alone *)
AloneResult(th) ==
    IF th.op = "search"
    THEN SearchResult(th.query, "keyword", th.limit, 0, NoFilters, th.order, QuietEnv)
    ELSE GetRelatedIdeas(th.idea_id, th.limit, th.order, th.rorder, QuietEnv).result

(* C22: under every interleaving of two calls on two threads over an unchanged
   store, a call that has returned has returned what it returns when run
   alone. *)
C22_ThreadsDoNotInterfere ==
    \A t \in Threads : threads[t].pc = "done" => threads[t].result = AloneResult(threads[t])

(* C22 witness: a search has returned an idea on one thread while the other
   thread, in get_related_ideas, has executed its relations query, which found
   a row, and has not fetched it yet. *)
C22_Witness ==
    \E t, u \in Threads :
        /\ threads[t].pc = "done" /\ threads[t].op = "search" /\ threads[t].result # <<>>
        /\ threads[u].pc = "relations_fetch" /\ threads[u].cursor # <<>>
        /\ threads[t].cursor # threads[u].cursor

(* C23: a call of search (any mode, any fallback path) or of get_related_ideas
   leaves the ideas, the tags, the tag links, the relations and the entries of
   the vector index as they were. *)
C23_RetrievalLeavesStoreUnchanged ==
    [][(last.op = "none" /\ last'.op \in {"search", "get_related_ideas"}) =>
            /\ ideas' = ideas
            /\ tags' = tags
            /\ ideaTags' = ideaTags
            /\ relations' = relations
            /\ vindex' = vindex]_vars

(* C23 witness: a hybrid search whose index call raised has returned a hit, over
   a store with an index entry, a tag link and a relation. *)
C23_Witness ==
    /\ Searched("hybrid") /\ last.vector_query /\ last.env.fails
    /\ last.result # <<>>
    /\ DOMAIN vindex # {} /\ ideaTags # {} /\ relations # <<>>

(* a get_related_ideas call that queried the index has returned, over a store
   with an index entry, a tag link and a relation *)
C23_RelatedWitness ==
    /\ RelatedCalled /\ last.vector_query /\ last.result # <<>>
    /\ DOMAIN vindex # {} /\ ideaTags # {} /\ relations # <<>>

(* C24: in a hybrid search that merges the answers of both retrievers, every
   idea at one of the first limit+offset ranks of the full merged ranking is
   among the candidates the two retrievers handed to the merge. *)
C24_HybridCandidatesCoverPage ==
    (Searched("hybrid") /\ AiAvailable /\ ~last.env.fails) =>
        IdsOf(Slice(FullMerged, 0, last.limit + last.offset))
            \subseteq IdsOf(LastKeywordPart) \cup IdsOf(LastVectorPart)

(* C25: the list a hybrid search returns is ordered by score descending, on
   the merged path and on the degraded paths (AI disabled or offline, the index
   call failing). *)
C25_HybridSortedByScore ==
    (Searched("hybrid") /\ ~last.raised) =>
        \A i \in 1..(Len(last.result) - 1) :
            last.result[i].relevance >= last.result[i + 1].relevance

(* C25 witness: a merged hybrid result of two entries, the later created idea
   first with the higher score, which it has from both retrievers. *)
C25_Witness ==
    /\ Searched("hybrid") /\ AiAvailable /\ ~last.env.fails /\ ~last.raised
    /\ Len(last.result) = 2
    /\ last.result[1].relevance > last.result[2].relevance
    /\ last.result[1].search_source = "both"
    /\ last.result[1].id > last.result[2].id

(* a hybrid result of two entries with different scores with AI disabled, and
   one with the index call failing *)
C25_DegradedWitness ==
    /\ Searched("hybrid") /\ ~last.raised /\ (~AiAvailable \/ last.env.fails)
    /\ Len(last.result) = 2
    /\ last.result[1].relevance > last.result[2].relevance
    /\ last.result[1].id > last.result[2].id

(* C26: the list a hybrid search returns holds each idea id at most once,
   whatever the two sub-results have in common. *)
C26_HybridNoDuplicateIds ==
    (Searched("hybrid") /\ ~last.raised) =>
        \A i, j \in 1..Len(last.result) :
            i # j => last.result[i].id # last.result[j].id

(* C26 witness: a merged hybrid result of two entries, both of which were in
   the keyword sub-result and in the vector sub-result. *)
C26_Witness ==
    /\ Searched("hybrid") /\ AiAvailable /\ ~last.env.fails /\ ~last.raised
    /\ Len(last.result) = 2
    /\ IdsOf(LastKeywordPart) \cap IdsOf(LastVectorPart) = IdsOf(last.result)
    /\ \A i \in 1..2 : last.result[i].search_source = "both"

(* the ideas other than the source that share a tag with it and are not in
   the result of last *)
UnusedTagNeighbours ==
    {j \in DOMAIN ideas :
        /\ j # last.idea_id
        /\ j \notin Range(last.result)
        /\ IdeaTagIds(j) \cap IdeaTagIds(last.idea_id) # {}}

(* C27: when get_related_ideas returns fewer than limit ideas, no other idea
   that shares a tag with the source idea has been left out: the slots the
   relations and the vector neighbours leave free are filled from the
   tag-overlap tier, also when the vector tier succeeded with too few
   neighbours. *)
C27_TagTierFillsRemainingSlots ==
    (RelatedCalled /\ IdeaExists(last.idea_id) /\ Len(last.result) < last.limit) =>
        UnusedTagNeighbours = {}

(* the relation rows of the call held by last, and what its tag tier added *)
LastRelationRows == RelatedFromRelations(last.idea_id, last.limit, last.rorder)

LastTagPart == SubSeq(last.result, Len(LastRelationRows) + 1, Len(last.result))

SharedTags(id) == Cardinality(IdeaTagIds(id) \cap IdeaTagIds(last.idea_id))

(* a comes before b in the order of the tag tier: more shared tags, or as many
   and not created earlier *)
TagRankNotBelow(a, b) ==
    \/ SharedTags(a) > SharedTags(b)
    \/ SharedTags(a) = SharedTags(b) /\ ideas[a].created_at >= ideas[b].created_at

(* C28: what the tag-overlap tier of get_related_ideas adds are ideas that share
   a tag with the source idea, none of them the source or an idea already
   selected, by number of shared tags descending and then by creation time
   descending, no idea passed over for one that ranks below it, and at most
   limit minus the number already selected. *)
C28_TagTierSelection ==
    (RelatedCalled /\ last.tag_query) =>
        LET candidates == {id \in DOMAIN ideas \ ({last.idea_id} \cup Range(LastRelationRows)) :
                              SharedTags(id) > 0}
        IN /\ SubSeq(last.result, 1, Len(LastRelationRows)) = LastRelationRows
           /\ \A i \in 1..Len(LastTagPart) : LastTagPart[i] \in candidates
           /\ \A i, j \in 1..Len(LastTagPart) :
                 i < j => /\ LastTagPart[i] # LastTagPart[j]
                          /\ TagRankNotBelow(LastTagPart[i], LastTagPart[j])
           /\ \A c \in candidates \ Range(LastTagPart) :
                 \A i \in 1..Len(LastTagPart) : TagRankNotBelow(LastTagPart[i], c)
           /\ Len(LastTagPart) <= last.limit - Len(LastRelationRows)

(* C28 witness: with no relation rows and a limit of 2 the tag tier added two
   ideas, first the older one that shares two tags, then the newer one that
   shares one. *)
C28_Witness ==
    /\ RelatedCalled /\ last.tag_query /\ last.limit = 2
    /\ LastRelationRows = <<>>
    /\ Len(last.result) = 2
    /\ SharedTags(last.result[1]) = 2 /\ SharedTags(last.result[2]) = 1
    /\ ideas[last.result[1]].created_at < ideas[last.result[2]].created_at

(* the tag tier added one idea behind a relation row whose target shares a tag
   with the source as well; and it took the newer of two ideas sharing one tag *)
C28_ExclusionWitness ==
    /\ RelatedCalled /\ last.tag_query /\ last.limit = 2
    /\ Len(LastRelationRows) = 1 /\ SharedTags(LastRelationRows[1]) > 0
    /\ LastRelationRows[1] # last.idea_id
    /\ Len(last.result) = 2

C28_RecencyWitness ==
    /\ RelatedCalled /\ last.tag_query /\ last.limit = 1
    /\ Len(last.result) = 1
    /\ \E c \in DOMAIN ideas \ {last.idea_id, last.result[1]} :
          /\ SharedTags(c) = SharedTags(last.result[1])
          /\ ideas[c].created_at < ideas[last.result[1]].created_at

(* every idea matching the keyword query of last, by relevance descending *)
FullKeywordRanking ==
    KeywordSearch(last.query, Cardinality(DOMAIN ideas), 0, last.filters, last.order)

Relevances(results) == [i \in 1..Len(results) |-> results[i].relevance]

(* C29: a keyword search with (limit, offset) returns the ranks offset ..
   offset+limit-1 of all matching ideas ordered by relevance descending: rank
   by rank it returns the relevance the full ranking has there, so no idea of a
   higher relevance is on a later page than one of a lower relevance. *)
C29_KeywordPageOfFullRanking ==
    (Searched("keyword") /\ ~last.raised) =>
        Relevances(last.result)
            = Relevances(Slice(FullKeywordRanking, last.offset, last.offset + last.limit))

(* C30: every entry of the vector index belongs to an idea that is in the
   notes store, and the text indexed for it is the content the idea has now. *)
C30_IndexFollowsStore ==
    \A id \in DOMAIN vindex :
        /\ IdeaExists(id)
        /\ vindex[id].document = ideas[id].content

====
